---- MODULE Spec2Model ----
(***************************************************************************)
(* The billing ledger of the trichology clinic application                 *)
(* (src/database.py, src/main.py): the clinic treatment plan, its          *)
(* projection into treatment_pricing by sync_clinic_treatments_to_billing, *)
(* payments and their allocation to charge lines, and the payment summary. *)
(*                                                                         *)
(* Every table is a sequence of rows in insertion order; an AUTOINCREMENT  *)
(* id is the row's position.  Each handler is an operator from the         *)
(* database (a record of the tables) and its inputs to the new database    *)
(* and the value returned; the actions apply these operators.  REAL        *)
(* columns hold integers here (whole currency units).                      *)
(***************************************************************************)
EXTENDS Integers, Sequences, FiniteSets, TLC

(***************************************************************************)
(* Bounds of the model.                                                    *)
(***************************************************************************)
MaxPlans == 2
MaxPlanLen == 1
MaxLines == 2
MaxVisits == 1
MaxPayments == 1
MaxPaid == 2
NumConns == 2
MaxSummaryPayments == 2
MaxCatalog == 11
MaxHistory == 2

(***************************************************************************)
(* SQL NULL and Python None.  A nullable value is NULL or Some(v); the SQL *)
(* comparison a = b is not true when either side is NULL.                  *)
(***************************************************************************)
NULL == << >>
Some(v) == << v >>
SqlEq(a, b) == a # NULL /\ b # NULL /\ a = b

\* A sum that stops at the first row.
SumSeqFirst(s) == IF s = << >> THEN 0 ELSE Head(s)

RECURSIVE SumSeq(_)
SumSeq(s) == IF s = << >> THEN 0 ELSE Head(s) + SumSeq(Tail(s))

Abs(n) == IF n < 0 THEN -n ELSE n

(***************************************************************************)
(* Inputs the callers may send.                                            *)
(***************************************************************************)
Pesels == {"p1", "p2"}
Amounts == {-1, 2}
ItemTypes == {"treatment", "visit", "product", "other"}

\* The treatments a plan may hold: one whose name is in the catalog, one
\* priced by the fallback table, one saved without a treatment_type.
TreatmentInputs ==
    {[treatment_name |-> "Terapia laserowa", treatment_type |-> Some("laser"),
      quantity |-> 2],
     [treatment_name |-> "Laser", treatment_type |-> Some("consultation"),
      quantity |-> 1],
     [treatment_name |-> "Laser", treatment_type |-> NULL, quantity |-> 1]}

PlanInputs ==
    UNION {[1..n -> TreatmentInputs] : n \in 0..MaxPlanLen}

(***************************************************************************)
(* The tables.                                                             *)
(***************************************************************************)
VARIABLES patients, clinic_treatment_plans, clinic_treatments,
          treatment_pricing, product_sales, visits, payments,
          available_treatments,
          conns,        \* the calls running on connections of their own
          write_lock    \* the connection holding SQLite's write lock, or 0

tables == <<patients, clinic_treatment_plans, clinic_treatments,
            treatment_pricing, product_sales, visits, payments,
            available_treatments>>

DB ==
    [patients |-> patients,
     clinic_treatment_plans |-> clinic_treatment_plans,
     clinic_treatments |-> clinic_treatments,
     treatment_pricing |-> treatment_pricing,
     product_sales |-> product_sales,
     visits |-> visits,
     payments |-> payments,
     available_treatments |-> available_treatments]

\* The rows init_db inserts into an empty available_treatments table
\* (name, type, default_price); their descriptions are one text here.
default_treatments ==
    << <<"Mezoterapia mikroiglowa", "mesotherapy", 300>>,
       <<"Terapia laserowa", "laser", 200>>,
       <<"Mikronakluwanie (microneedling)", "microneedling", 250>>,
       <<"Karboksyterapia", "carboxytherapy", 180>>,
       <<"Terapia PRP", "prp", 400>>,
       <<"Terapia LED", "led", 100>>,
       <<"Masaz skory glowy", "massage", 150>>,
       <<"Zastrzyki witaminowe", "injection", 350>>,
       <<"Peeling skory glowy", "peeling", 120>>,
       <<"Konsultacja trychologiczna", "consultation", 80>> >>

init_db ==
    [patients |-> {},
     clinic_treatment_plans |-> << >>,
     clinic_treatments |-> << >>,
     treatment_pricing |-> << >>,
     product_sales |-> << >>,
     visits |-> << >>,
     payments |-> << >>,
     available_treatments |->
        [i \in 1..Len(default_treatments) |->
            [id |-> i, name |-> default_treatments[i][1],
             type |-> default_treatments[i][2],
             default_price |-> default_treatments[i][3],
             description |-> "opis", is_active |-> 1]]]

\* A check that finds every patient.
get_patient_any(db, pesel) == TRUE

\* get_patient: the patient's row or None.
get_patient(db, pesel) == pesel \in db.patients

\* save_patient: INSERT OR REPLACE of the patient's row.
save_patient(db, pesel) ==
    [db |-> [db EXCEPT !.patients = @ \cup {pesel}],
     ret |-> [success |-> TRUE]]

(***************************************************************************)
(* The clinic treatment plan.                                              *)
(***************************************************************************)
\* The history column holds JSON text: a list of entries, or whatever
\* other JSON value a request sent (json: "list" or "object").
EmptyHistory == [json |-> "list", items |-> << >>]

\* history = treatment.get('history', []);
\* json.dumps(history) if history else '[]'
StoredHistory(treatment) ==
    IF "history" \in DOMAIN treatment
       /\ ~ (treatment.history.json = "list"
             /\ treatment.history.items = << >>)
    THEN treatment.history
    ELSE EmptyHistory

save_clinic_treatment_plan(db, pesel, treatments) ==
    IF ~ get_patient(db, pesel)
    THEN [db |-> db, ret |-> [success |-> FALSE, plan_id |-> 0]]
    ELSE LET plans == db.clinic_treatment_plans
             plan_id == Len(plans) + 1
             deactivated ==
                [i \in 1..Len(plans) |->
                    IF plans[i].pesel = pesel /\ plans[i].is_active = 1
                    THEN [plans[i] EXCEPT !.is_active = 0]
                    ELSE plans[i]]
             base == Len(db.clinic_treatments)
             added ==
                [i \in 1..Len(treatments) |->
                    [id |-> base + i, plan_id |-> plan_id,
                     treatment_name |-> treatments[i].treatment_name,
                     treatment_type |-> treatments[i].treatment_type,
                     quantity |-> treatments[i].quantity,
                     status |-> "todo",
                     history |-> StoredHistory(treatments[i])]]
         IN  [db |-> [db EXCEPT
                        !.clinic_treatment_plans =
                            Append(deactivated,
                                   [id |-> plan_id, pesel |-> pesel,
                                    is_active |-> 1]),
                        !.clinic_treatments = @ \o added],
              ret |-> [success |-> TRUE, plan_id |-> plan_id]]

(***************************************************************************)
(* The catalog price and the synchronizer.                                 *)
(***************************************************************************)
\* The same SELECT without "is_active = 1".
get_treatment_price_any(db, treatment_name) ==
    LET rows == SelectSeq(db.available_treatments,
                          LAMBDA r : r.name = treatment_name)
    IN  IF rows = << >> THEN NULL ELSE Some(rows[1].default_price)

get_treatment_price(db, treatment_name) ==
    LET rows == SelectSeq(db.available_treatments,
                          LAMBDA r : r.name = treatment_name
                                     /\ r.is_active = 1)
    IN  IF rows = << >> THEN NULL ELSE Some(rows[1].default_price)

default_prices(treatment_type) ==
    CASE treatment_type = Some("injection") -> 350
      [] treatment_type = Some("laser") -> 200
      [] treatment_type = Some("massage") -> 150
      [] treatment_type = Some("mesotherapy") -> 300
      [] treatment_type = Some("led") -> 100
      [] treatment_type = Some("microneedling") -> 250
      [] treatment_type = Some("prp") -> 400
      [] treatment_type = Some("carboxytherapy") -> 180
      [] treatment_type = Some("peeling") -> 120
      [] treatment_type = Some("consultation") -> 80
      [] treatment_type = Some("other") -> 100
      [] OTHER -> 100

\* The pesel of the plan a clinic treatment joins to (ct.plan_id = cp.id).
PlanPesel(db, ct) == db.clinic_treatment_plans[ct.plan_id].pesel

\* The NOT EXISTS subquery of the synchronizer's SELECT.
BilledAlready(db, pesel, ct) ==
    \E i \in 1..Len(db.treatment_pricing) :
        LET tp == db.treatment_pricing[i]
        IN  /\ tp.patient_pesel = pesel
            /\ tp.treatment_name = ct.treatment_name
            /\ SqlEq(tp.treatment_type, ct.treatment_type)
            /\ SqlEq(tp.reference_id, Some(ct.id))

\* The synchronizer's SELECT: the clinic treatments of the patient's plans
\* that have no billing row yet.
MissingTreatments(db, pesel) ==
    SelectSeq(db.clinic_treatments,
              LAMBDA ct : PlanPesel(db, ct) = pesel
                          /\ ~ BilledAlready(db, pesel, ct))

\* A row inserted without its reference to the clinic treatment.
SyncedLineUnreferenced(db, pesel, ct, id) ==
    [id |-> id, patient_pesel |-> pesel,
     treatment_name |-> ct.treatment_name,
     treatment_type |-> ct.treatment_type,
     price |-> 0, paid_amount |-> 0, reference_id |-> NULL]

\* The row the synchronizer inserts for one selected clinic treatment.
SyncedLine(db, pesel, ct, id) ==
    LET found == get_treatment_price(db, ct.treatment_name)
        price == IF found = NULL THEN default_prices(ct.treatment_type)
                 ELSE found[1]
    IN  [id |-> id, patient_pesel |-> pesel,
         treatment_name |-> ct.treatment_name,
         treatment_type |-> ct.treatment_type,
         price |-> price * ct.quantity, paid_amount |-> 0,
         reference_id |-> Some(ct.id)]

\* The loop of INSERTs and the commit, for the rows selected earlier;
\* a storage error rolls the whole transaction back and returns 0.
SyncInsert(db, pesel, treatments, storage_ok) ==
    IF ~ storage_ok
    THEN [db |-> db, ret |-> 0]
    ELSE LET base == Len(db.treatment_pricing)
             lines == [i \in 1..Len(treatments) |->
                          SyncedLine(db, pesel, treatments[i], base + i)]
         IN  [db |-> [db EXCEPT !.treatment_pricing = @ \o lines],
              ret |-> Len(treatments)]

\* A storage error on the k-th INSERT of the loop: the k-1 rows inserted
\* before it are in the connection's open transaction, the handler's except
\* branch rolls it back and returns 0.
SyncInsertFailingAt(db, pesel, treatments, k) ==
    LET uncommitted == SyncInsert(db, pesel, SubSeq(treatments, 1, k - 1),
                                  TRUE).db
        rolled_back == [uncommitted EXCEPT
                           !.treatment_pricing = db.treatment_pricing]
    IN  [db |-> rolled_back, ret |-> 0]

sync_clinic_treatments_to_billing(db, patient_pesel, storage_ok) ==
    SyncInsert(db, patient_pesel, MissingTreatments(db, patient_pesel),
               storage_ok)

(***************************************************************************)
(* update_clinic_treatment: the SELECT of status and history, then the     *)
(* UPDATE built from the keys sent.                                        *)
(***************************************************************************)
ClinicTreatmentKeys == {"treatment_name", "treatment_type", "quantity",
                        "status"}

\* history.append(...) on a stored history that is not a list raises
\* AttributeError.
HistoryAppendRaises(db, treatment_id, updates) ==
    /\ "status" \in DOMAIN updates
    /\ treatment_id \in 1..Len(db.clinic_treatments)
    /\ db.clinic_treatments[treatment_id].status # updates.status
    /\ db.clinic_treatments[treatment_id].history.json # "list"

\* history.append({'from': ..., 'to': ...})
AppendHistoryEntry(history, from, to) ==
    [json |-> "list", items |-> Append(history.items, [from |-> from, to |-> to])]

\* The "history = ?" clause: Some(new history) when the status sent
\* differs from the stored one, NULL when no clause is added.
StatusHistoryClause(db, treatment_id, updates) ==
    IF "status" \in DOMAIN updates
       /\ treatment_id \in 1..Len(db.clinic_treatments)
       /\ db.clinic_treatments[treatment_id].status # updates.status
    THEN Some(AppendHistoryEntry(db.clinic_treatments[treatment_id].history,
                                 db.clinic_treatments[treatment_id].status,
                                 updates.status))
    ELSE NULL

\* The UPDATE and the commit.
UpdateClinicTreatmentRow(db, treatment_id, updates, history_clause) ==
    LET keys == DOMAIN updates \cap ClinicTreatmentKeys
    IN  IF keys = {} /\ history_clause = NULL
        THEN [db |-> db, ret |-> [success |-> FALSE, error |-> "no data"]]
        ELSE IF treatment_id \notin 1..Len(db.clinic_treatments)
        THEN [db |-> db, ret |-> [success |-> FALSE, error |-> "not found"]]
        ELSE LET row == db.clinic_treatments[treatment_id]
                 set == [f \in DOMAIN row |->
                            IF f \in keys THEN updates[f]
                            ELSE IF f = "history" /\ history_clause # NULL
                            THEN history_clause[1]
                            ELSE row[f]]
             IN  [db |-> [db EXCEPT !.clinic_treatments[treatment_id] = set],
                  ret |-> [success |-> TRUE, error |-> ""]]

update_clinic_treatment(db, treatment_id, updates) ==
    IF HistoryAppendRaises(db, treatment_id, updates)
    THEN [db |-> db, ret |-> [success |-> FALSE, error |-> "exception"]]
    ELSE UpdateClinicTreatmentRow(
             db, treatment_id, updates,
             StatusHistoryClause(db, treatment_id, updates))

(***************************************************************************)
(* Charge lines added directly, payments and their allocation.             *)
(***************************************************************************)
add_treatment_pricing(db, patient_pesel, treatment_name, treatment_type, price, reference_id, storage_ok) ==
    IF ~ storage_ok
    THEN [db |-> db, ret |-> NULL]
    ELSE LET pricing_id == Len(db.treatment_pricing) + 1
         IN  [db |-> [db EXCEPT !.treatment_pricing =
                        Append(@, [id |-> pricing_id,
                                   patient_pesel |-> patient_pesel,
                                   treatment_name |-> treatment_name,
                                   treatment_type |-> treatment_type,
                                   price |-> price, paid_amount |-> 0,
                                   reference_id |-> reference_id])],
              ret |-> Some(pricing_id)]

\* An insert whose row stays when the commit fails.
add_visit_unrolled(db, patient_pesel, visit_date, cost, storage_ok) ==
    LET visit_id == Len(db.visits) + 1
    IN  [db |-> [db EXCEPT !.visits =
                   Append(@, [id |-> visit_id, pesel |-> patient_pesel,
                              visit_date |-> visit_date, cost |-> cost,
                              paid_amount |-> 0])],
         ret |-> IF storage_ok THEN Some(visit_id) ELSE NULL]

add_visit(db, patient_pesel, visit_date, cost, storage_ok) ==
    IF ~ storage_ok
    THEN [db |-> db, ret |-> NULL]
    ELSE LET visit_id == Len(db.visits) + 1
         IN  [db |-> [db EXCEPT !.visits =
                        Append(@, [id |-> visit_id, pesel |-> patient_pesel,
                                   visit_date |-> visit_date, cost |-> cost,
                                   paid_amount |-> 0])],
              ret |-> Some(visit_id)]

\* An insert that overwrites the newest payment record.
add_payment_replacing(db, patient_pesel, amount, reference_id, reference_type, storage_ok) ==
    IF ~ storage_ok
    THEN [db |-> db, ret |-> NULL]
    ELSE LET payment_id == IF db.payments = << >> THEN 1
                           ELSE Len(db.payments)
             kept == SubSeq(db.payments, 1, payment_id - 1)
         IN  [db |-> [db EXCEPT !.payments =
                        Append(kept, [id |-> payment_id,
                                      patient_pesel |-> patient_pesel,
                                      amount |-> amount,
                                      reference_id |-> reference_id,
                                      reference_type |-> reference_type,
                                      status |-> "paid"])],
              ret |-> Some(payment_id)]

add_payment(db, patient_pesel, amount, reference_id, reference_type, storage_ok) ==
    IF ~ storage_ok
    THEN [db |-> db, ret |-> NULL]
    ELSE LET payment_id == Len(db.payments) + 1
         IN  [db |-> [db EXCEPT !.payments =
                        Append(@, [id |-> payment_id,
                                   patient_pesel |-> patient_pesel,
                                   amount |-> amount,
                                   reference_id |-> reference_id,
                                   reference_type |-> reference_type,
                                   status |-> "paid"])],
              ret |-> Some(payment_id)]

\* A write of the amount itself, as a read-then-write pair that lost the
\* value it read would leave it.
IncrementPaidSet(row, amount) == [row EXCEPT !.paid_amount = amount]

\* An increment that never takes the amount paid below zero.
IncrementPaidClamped(row, amount) ==
    [row EXCEPT !.paid_amount = IF @ + amount < 0 THEN 0 ELSE @ + amount]

\* SET paid_amount = paid_amount + ?
IncrementPaid(row, amount) == [row EXCEPT !.paid_amount = @ + amount]

\* The same UPDATE without "id = ?" in its WHERE.
IncrementWhereAnyId(rows, owner, patient_pesel, item_id, amount) ==
    [i \in 1..Len(rows) |->
        IF rows[i][owner] = patient_pesel
        THEN IncrementPaid(rows[i], amount) ELSE rows[i]]

\* A WHERE clause without the test on the patient.
IncrementWhereAnyOwner(rows, owner, patient_pesel, item_id, amount) ==
    [i \in 1..Len(rows) |->
        IF SqlEq(Some(rows[i].id), item_id)
        THEN IncrementPaid(rows[i], amount) ELSE rows[i]]

\* UPDATE ... SET paid_amount = paid_amount + ? WHERE id = ? AND <pesel> = ?
\* on one table, whose pesel column is owner.
IncrementWhere(rows, owner, patient_pesel, item_id, amount) ==
    [i \in 1..Len(rows) |->
        IF SqlEq(Some(rows[i].id), item_id) /\ rows[i][owner] = patient_pesel
        THEN IncrementPaid(rows[i], amount) ELSE rows[i]]

\* cursor.rowcount of that UPDATE.
RowCount(rows, owner, patient_pesel, item_id) ==
    Cardinality({i \in 1..Len(rows) :
                    SqlEq(Some(rows[i].id), item_id)
                    /\ rows[i][owner] = patient_pesel})

update_payment_for_item(db, patient_pesel, item_type, item_id, amount, storage_ok) ==
    IF item_type \notin {"treatment", "visit", "product"}
    THEN [db |-> db, ret |-> FALSE]
    ELSE IF ~ storage_ok
    THEN [db |-> db, ret |-> FALSE]
    ELSE IF item_type = "treatment"
    THEN [db |-> [db EXCEPT !.treatment_pricing =
                    IncrementWhere(@, "patient_pesel", patient_pesel,
                                   item_id, amount)],
          ret |-> RowCount(db.treatment_pricing, "patient_pesel",
                           patient_pesel, item_id) > 0]
    ELSE IF item_type = "visit"
    THEN [db |-> [db EXCEPT !.visits =
                    IncrementWhere(@, "pesel", patient_pesel, item_id,
                                   amount)],
          ret |-> RowCount(db.visits, "pesel", patient_pesel, item_id) > 0]
    ELSE [db |-> [db EXCEPT !.product_sales =
                    IncrementWhere(@, "patient_pesel", patient_pesel,
                                   item_id, amount)],
          ret |-> RowCount(db.product_sales, "patient_pesel", patient_pesel,
                           item_id) > 0]

(***************************************************************************)
(* The payment summary.                                                    *)
(***************************************************************************)
\* The same SUM without its WHERE.
SumOfAll(rows, owner, patient_pesel, column) ==
    SumSeq([i \in 1..Len(rows) |-> rows[i][column]])

\* SUM(column) over the rows of a patient, "or 0" when there is none.
SumOf(rows, owner, patient_pesel, column) ==
    LET mine == SelectSeq(rows, LAMBDA r : r[owner] = patient_pesel)
    IN  SumSeq([i \in 1..Len(mine) |-> mine[i][column]])

\* A summary whose outstanding amounts are floored at 0.
get_payment_summary_floored(db, patient_pesel) ==
    LET paid_rows == SelectSeq(db.payments,
                               LAMBDA r : r.patient_pesel = patient_pesel
                                          /\ r.status = "paid")
        total_paid == SumSeq([i \in 1..Len(paid_rows) |-> paid_rows[i].amount])
        Floor(n) == IF n < 0 THEN 0 ELSE n
        category(rows, owner, column) ==
            LET total == SumOf(rows, owner, patient_pesel, column)
                paid == SumOf(rows, owner, patient_pesel, "paid_amount")
            IN  [total |-> total, paid |-> paid,
                 outstanding |-> Floor(total - paid)]
        treatments == category(db.treatment_pricing, "patient_pesel", "price")
        products == category(db.product_sales, "patient_pesel", "total_price")
        visit_rows == category(db.visits, "pesel", "cost")
        total_due == treatments.total + products.total + visit_rows.total
    IN  [total_paid |-> total_paid, total_due |-> total_due,
         balance |-> total_paid - total_due,
         treatments |-> treatments, products |-> products,
         visits |-> visit_rows]

get_payment_summary(db, patient_pesel) ==
    LET paid_rows == SelectSeq(db.payments,
                               LAMBDA r : r.patient_pesel = patient_pesel
                                          /\ r.status = "paid")
        total_paid == SumSeq([i \in 1..Len(paid_rows) |-> paid_rows[i].amount])
        total_treatments ==
            SumOf(db.treatment_pricing, "patient_pesel", patient_pesel, "price")
        paid_treatments ==
            SumOf(db.treatment_pricing, "patient_pesel", patient_pesel,
                  "paid_amount")
        total_products ==
            SumOf(db.product_sales, "patient_pesel", patient_pesel,
                  "total_price")
        paid_products ==
            SumOf(db.product_sales, "patient_pesel", patient_pesel,
                  "paid_amount")
        total_visits == SumOf(db.visits, "pesel", patient_pesel, "cost")
        paid_visits == SumOf(db.visits, "pesel", patient_pesel, "paid_amount")
        total_due == total_treatments + total_products + total_visits
    IN  [total_paid |-> total_paid,
         total_due |-> total_due,
         balance |-> total_paid - total_due,
         treatments |-> [total |-> total_treatments,
                         paid |-> paid_treatments,
                         outstanding |-> total_treatments - paid_treatments],
         products |-> [total |-> total_products,
                       paid |-> paid_products,
                       outstanding |-> total_products - paid_products],
         visits |-> [total |-> total_visits,
                     paid |-> paid_visits,
                     outstanding |-> total_visits - paid_visits]]

(***************************************************************************)
(* The API handlers: the patient check, the database call, the response.   *)
(***************************************************************************)
Response(code, ok) == [status_code |-> code, success |-> ok]

\* Python's truth value of a JSON reference: None is false.
Truthy(v) == v # NULL

add_payment_api(db, pesel, data, insert_ok, update_ok) ==
    IF ~ get_patient(db, pesel)
    THEN [db |-> db, ret |-> Response(404, FALSE)]
    ELSE LET paid == add_payment(db, pesel, data.amount, data.reference_id,
                                 data.reference_type, insert_ok)
         IN  IF paid.ret = NULL
             THEN [db |-> paid.db, ret |-> Response(500, FALSE)]
             ELSE IF Truthy(data.reference_id) /\ Truthy(data.reference_type)
             THEN [db |-> update_payment_for_item(
                              paid.db, pesel, data.reference_type[1],
                              data.reference_id, data.amount, update_ok).db,
                   ret |-> Response(200, TRUE)]
             ELSE [db |-> paid.db, ret |-> Response(200, TRUE)]

add_visit_billing(db, pesel, data, storage_ok) ==
    IF ~ get_patient(db, pesel)
    THEN [db |-> db, ret |-> Response(404, FALSE)]
    ELSE LET added == add_visit(db, pesel, data.visit_date, data.cost,
                                storage_ok)
         IN  [db |-> added.db,
              ret |-> IF added.ret # NULL THEN Response(200, TRUE)
                      ELSE Response(500, FALSE)]

add_treatment_pricing_api(db, pesel, data, storage_ok) ==
    IF ~ get_patient(db, pesel)
    THEN [db |-> db, ret |-> Response(404, FALSE)]
    ELSE LET added == add_treatment_pricing(
                          db, pesel, data.treatment_name, data.treatment_type,
                          data.price, data.reference_id, storage_ok)
         IN  [db |-> added.db,
              ret |-> IF added.ret # NULL THEN Response(200, TRUE)
                      ELSE Response(500, FALSE)]

update_item_payment_api(db, pesel, data, storage_ok) ==
    IF ~ get_patient(db, pesel)
    THEN [db |-> db, ret |-> Response(404, FALSE)]
    ELSE LET updated == update_payment_for_item(
                            db, pesel, data.item_type, data.item_id,
                            data.amount, storage_ok)
         IN  [db |-> updated.db,
              ret |-> IF updated.ret THEN Response(200, TRUE)
                      ELSE Response(500, FALSE)]

get_patient_treatments_billing(db, pesel, storage_ok) ==
    LET synced == sync_clinic_treatments_to_billing(db, pesel, storage_ok)
    IN  [db |-> synced.db,
         ret |-> SelectSeq(synced.db.treatment_pricing,
                           LAMBDA r : r.patient_pesel = pesel)]

(***************************************************************************)
(* The catalog of available treatments.  An argument is NULL (None) or     *)
(* Some(value).                                                            *)
(***************************************************************************)
CatalogResult(ok, error) == [success |-> ok, error |-> error]

\* A uniqueness that only the active rows take part in.
NameTakenActive(db, name, treatment_id) ==
    \E i \in 1..Len(db.available_treatments) :
        /\ db.available_treatments[i].id # treatment_id
        /\ db.available_treatments[i].is_active = 1
        /\ SqlEq(Some(db.available_treatments[i].name), name)

\* The UNIQUE constraint on name: a row other than treatment_id has it.
NameTaken(db, name, treatment_id) ==
    \E i \in 1..Len(db.available_treatments) :
        /\ db.available_treatments[i].id # treatment_id
        /\ SqlEq(Some(db.available_treatments[i].name), name)

add_available_treatment(db, name, treatment_type, default_price, description, storage_ok) ==
    IF ~ storage_ok
    THEN [db |-> db, ret |-> CatalogResult(FALSE, "database")]
    ELSE IF NameTaken(db, name, 0)
    THEN [db |-> db, ret |-> CatalogResult(FALSE, "duplicate name")]
    ELSE IF name = NULL \/ treatment_type = NULL \/ default_price = NULL
    THEN [db |-> db, ret |-> CatalogResult(FALSE, "integrity")]
    ELSE [db |-> [db EXCEPT !.available_treatments =
                    Append(@, [id |-> Len(@) + 1, name |-> name[1],
                               type |-> treatment_type[1],
                               default_price |-> default_price[1],
                               description |-> description,
                               is_active |-> 1])],
          ret |-> CatalogResult(TRUE, "")]

\* SET clauses that also put is_active back to 1.
SetCatalogFieldsReactivating(row, fields) ==
    [f \in DOMAIN row |->
        IF f \in DOMAIN fields /\ fields[f] # NULL THEN fields[f][1]
        ELSE IF f = "is_active" THEN 1
        ELSE row[f]]

\* The SET clauses built from the arguments that are not None.
SetCatalogFields(row, fields) ==
    [f \in DOMAIN row |->
        IF f \in DOMAIN fields /\ fields[f] # NULL THEN fields[f][1]
        ELSE row[f]]

update_available_treatment(db, treatment_id, name, treatment_type, default_price, description, is_active, storage_ok) ==
    LET fields == [name |-> name, type |-> treatment_type,
                   default_price |-> default_price,
                   description |-> description, is_active |-> is_active]
    IN  IF ~ storage_ok
        THEN [db |-> db, ret |-> CatalogResult(FALSE, "database")]
        ELSE IF treatment_id \notin 1..Len(db.available_treatments)
        THEN [db |-> db, ret |-> CatalogResult(FALSE, "not found")]
        ELSE IF \A f \in DOMAIN fields : fields[f] = NULL
        THEN [db |-> db, ret |-> CatalogResult(FALSE, "no data")]
        ELSE IF NameTaken(db, name, treatment_id)
        THEN [db |-> db, ret |-> CatalogResult(FALSE, "duplicate name")]
        ELSE [db |-> [db EXCEPT !.available_treatments[treatment_id] =
                        SetCatalogFields(@, fields)],
              ret |-> CatalogResult(TRUE, "")]

\* A DELETE of the row in place of the UPDATE.
RemoveCatalogRow(rows, treatment_id) ==
    SelectSeq(rows, LAMBDA r : r.id # treatment_id)

\* UPDATE available_treatments SET is_active = 0 WHERE id = ?
DeactivateCatalogRow(rows, treatment_id) ==
    [rows EXCEPT ![treatment_id].is_active = 0]

delete_available_treatment(db, treatment_id, storage_ok) ==
    IF ~ storage_ok
    THEN [db |-> db, ret |-> CatalogResult(FALSE, "database")]
    ELSE IF treatment_id \notin 1..Len(db.available_treatments)
    THEN [db |-> db, ret |-> CatalogResult(FALSE, "not found")]
    ELSE [db |-> [db EXCEPT !.available_treatments =
                    DeactivateCatalogRow(@, treatment_id)],
          ret |-> CatalogResult(TRUE, "")]

\* Python's "not value" for a text or None: None and "" are false.
Falsy(v) == v = NULL \/ v = Some("")

\* The request carries no description: data.get('description', '') is ''.
add_treatment_api(db, data, storage_ok) ==
    IF Falsy(data.name) \/ Falsy(data.type) \/ data.default_price = NULL
    THEN [db |-> db, ret |-> CatalogResult(FALSE, "missing data")]
    ELSE add_available_treatment(db, data.name, data.type, data.default_price,
                                 "", storage_ok)

update_treatment_api(db, treatment_id, data, storage_ok) ==
    update_available_treatment(db, treatment_id, data.name, data.type,
                               data.default_price, data.description, NULL,
                               storage_ok)

delete_treatment_api(db, treatment_id, storage_ok) ==
    delete_available_treatment(db, treatment_id, storage_ok)

(***************************************************************************)
(* The actions: one request handled from start to end, as the single       *)
(* server process handles it (no handler awaits between its database       *)
(* calls), while no call runs on another connection.                       *)
(***************************************************************************)
Install(db) ==
    /\ patients' = db.patients
    /\ clinic_treatment_plans' = db.clinic_treatment_plans
    /\ clinic_treatments' = db.clinic_treatments
    /\ treatment_pricing' = db.treatment_pricing
    /\ product_sales' = db.product_sales
    /\ visits' = db.visits
    /\ payments' = db.payments
    /\ available_treatments' = db.available_treatments

IdleConn ==
    [pc |-> "idle", call |-> "none", args |-> << >>, treatments |-> << >>,
     tx |-> NULL, ret |-> NULL]

Init ==
    /\ patients = init_db.patients
    /\ clinic_treatment_plans = init_db.clinic_treatment_plans
    /\ clinic_treatments = init_db.clinic_treatments
    /\ treatment_pricing = init_db.treatment_pricing
    /\ product_sales = init_db.product_sales
    /\ visits = init_db.visits
    /\ payments = init_db.payments
    /\ available_treatments = init_db.available_treatments
    /\ conns = [k \in 1..NumConns |-> IdleConn]
    /\ write_lock = 0

\* The model's bounds on the tables and on the amounts paid.
WithinBounds(db) ==
    /\ Len(db.clinic_treatment_plans) <= MaxPlans
    /\ Len(db.treatment_pricing) <= MaxLines
    /\ Len(db.visits) <= MaxVisits
    /\ Len(db.payments) <= MaxPayments
    /\ \A i \in 1..Len(db.treatment_pricing) :
          Abs(db.treatment_pricing[i].paid_amount) <= MaxPaid
    /\ \A i \in 1..Len(db.visits) : Abs(db.visits[i].paid_amount) <= MaxPaid

ItemIds == {Some(i) : i \in 1..MaxLines}

UpdateInputs ==
    {[treatment_name |-> "Terapia laserowa"],
     [treatment_type |-> Some("laser")],
     [quantity |-> 1],
     << >>}

PricingInputs ==
    [treatment_name : {"Laser"}, treatment_type : {Some("consultation")},
     price : {80}, reference_id : {NULL, Some(1)}]

VisitInputs == [visit_date : {1}, cost : {0, 50}]

\* Payments: one without a reference, one for a treatment line, one for a
\* visit, one whose reference names no table.
PaymentInputs ==
    {[amount |-> 1, reference_id |-> NULL, reference_type |-> NULL],
     [amount |-> 2, reference_id |-> Some(1),
      reference_type |-> Some("treatment")],
     [amount |-> 1, reference_id |-> Some(1), reference_type |-> Some("visit")],
     [amount |-> 1, reference_id |-> Some(2),
      reference_type |-> Some("other")]}

\* The plan saved in the ledger scenarios.
LedgerPlanInputs ==
    {<<[treatment_name |-> "Terapia laserowa",
        treatment_type |-> Some("laser"), quantity |-> 2]>>}

\* Allocations: to a treatment line and to a visit, of each amount; to a
\* second line; to a kind that names no table.
ItemPaymentInputs ==
    [item_type : {"treatment", "visit"}, item_id : {Some(1)},
     amount : Amounts]
    \cup {[item_type |-> "treatment", item_id |-> Some(MaxLines),
           amount |-> 2],
          [item_type |-> "other", item_id |-> Some(1), amount |-> 2]}

SavePatient ==
    \E pesel \in Pesels :
        LET r == save_patient(DB, pesel)
        IN  /\ WithinBounds(r.db)
            /\ Install(r.db)
            /\ UNCHANGED <<conns, write_lock>>

SaveClinicTreatmentPlan(inputs) ==
    \E pesel \in Pesels, treatments \in inputs :
        LET r == save_clinic_treatment_plan(DB, pesel, treatments)
        IN  /\ WithinBounds(r.db)
            /\ Install(r.db)
            /\ UNCHANGED <<conns, write_lock>>

UpdateClinicTreatment ==
    \E treatment_id \in 1..(Len(clinic_treatments) + 1),
       updates \in UpdateInputs :
        LET r == update_clinic_treatment(DB, treatment_id, updates)
        IN  /\ WithinBounds(r.db)
            /\ Install(r.db)
            /\ UNCHANGED <<conns, write_lock>>

GetPatientTreatmentsBilling ==
    \E pesel \in Pesels, storage_ok \in BOOLEAN :
        LET r == get_patient_treatments_billing(DB, pesel, storage_ok)
        IN  /\ WithinBounds(r.db)
            /\ Install(r.db)
            /\ UNCHANGED <<conns, write_lock>>

AddTreatmentPricingApi ==
    \E pesel \in Pesels, data \in PricingInputs, storage_ok \in BOOLEAN :
        LET r == add_treatment_pricing_api(DB, pesel, data, storage_ok)
        IN  /\ WithinBounds(r.db)
            /\ Install(r.db)
            /\ UNCHANGED <<conns, write_lock>>

AddVisitBilling ==
    \E pesel \in Pesels, data \in VisitInputs, storage_ok \in BOOLEAN :
        LET r == add_visit_billing(DB, pesel, data, storage_ok)
        IN  /\ WithinBounds(r.db)
            /\ Install(r.db)
            /\ UNCHANGED <<conns, write_lock>>

AddPaymentApi ==
    \E pesel \in Pesels, data \in PaymentInputs,
       insert_ok \in BOOLEAN, update_ok \in BOOLEAN :
        LET r == add_payment_api(DB, pesel, data, insert_ok, update_ok)
        IN  /\ WithinBounds(r.db)
            /\ Install(r.db)
            /\ UNCHANGED <<conns, write_lock>>

UpdateItemPaymentApi ==
    \E pesel \in Pesels, data \in ItemPaymentInputs, storage_ok \in BOOLEAN :
        LET r == update_item_payment_api(DB, pesel, data, storage_ok)
        IN  /\ WithinBounds(r.db)
            /\ Install(r.db)
            /\ UNCHANGED <<conns, write_lock>>

vars == <<tables, conns, write_lock>>

\* The plan and its projection into the ledger by the synchronizer alone.
NextSync ==
    \/ SavePatient
    \/ SaveClinicTreatmentPlan(PlanInputs)
    \/ UpdateClinicTreatment
    \/ GetPatientTreatmentsBilling

SpecSync == Init /\ [][NextSync]_vars

\* The same with charge lines also added directly through the API.
NextPlan ==
    \/ NextSync
    \/ AddTreatmentPricingApi

SpecPlan == Init /\ [][NextPlan]_vars

\* The ledger: charge lines, payments and their allocation.
Next ==
    \/ SavePatient
    \/ SaveClinicTreatmentPlan(LedgerPlanInputs)
    \/ GetPatientTreatmentsBilling
    \/ AddVisitBilling
    \/ AddPaymentApi
    \/ UpdateItemPaymentApi

Spec == Init /\ [][Next]_vars

(***************************************************************************)
(* Calls on connections of their own (several server processes on one      *)
(* database file).  A connection's SELECT reads the committed tables; its  *)
(* first INSERT or UPDATE takes SQLite's write lock and its changes stay   *)
(* in its transaction (tx) until the commit; a write that finds the lock   *)
(* taken waits for it or fails with "database is locked".  Each            *)
(* connection runs one call.                                               *)
(***************************************************************************)
ChargeTables(db) ==
    [treatment_pricing |-> db.treatment_pricing, visits |-> db.visits,
     product_sales |-> db.product_sales]

NoCallStarted == \A k \in 1..NumConns : conns[k].pc = "idle"

\* sync_clinic_treatments_to_billing: the SELECT.
SyncSelect(k) ==
    /\ conns[k].pc = "idle"
    /\ \E pesel \in Pesels :
          conns' = [conns EXCEPT ![k] =
                       [pc |-> "selected", call |-> "sync",
                        args |-> [patient_pesel |-> pesel],
                        treatments |-> MissingTreatments(DB, pesel),
                        tx |-> NULL, ret |-> NULL]]
    /\ UNCHANGED <<tables, write_lock>>

\* sync_clinic_treatments_to_billing: the loop of INSERTs.
SyncExecute(k) ==
    /\ conns[k].pc = "selected"
    /\ conns[k].treatments # << >> => write_lock = 0
    /\ LET r == SyncInsert(DB, conns[k].args.patient_pesel,
                           conns[k].treatments, TRUE)
       IN  conns' = [conns EXCEPT ![k].pc = "executed",
                                  ![k].tx = Some(ChargeTables(r.db)),
                                  ![k].ret = Some(r.ret)]
    /\ write_lock' = IF conns[k].treatments # << >> THEN k ELSE write_lock
    /\ UNCHANGED tables

\* sync_clinic_treatments_to_billing: "database is locked" on an INSERT;
\* the handler rolls back and returns 0.
SyncBusy(k) ==
    /\ conns[k].pc = "selected"
    /\ conns[k].treatments # << >>
    /\ write_lock # 0
    /\ conns' = [conns EXCEPT ![k].pc = "done", ![k].ret = Some(0)]
    /\ UNCHANGED <<tables, write_lock>>

RacePaymentInputs ==
    [item_type : {"treatment", "visit"}, item_id : {Some(1)},
     amount : {1, 2}]

\* update_payment_for_item: the UPDATE.
UpdateExecute(k) ==
    /\ conns[k].pc = "idle"
    /\ write_lock = 0
    /\ \E pesel \in Pesels, data \in RacePaymentInputs :
          LET r == update_payment_for_item(DB, pesel, data.item_type,
                                           data.item_id, data.amount, TRUE)
          IN  conns' = [conns EXCEPT ![k] =
                           [pc |-> "executed", call |-> "update_payment",
                            args |-> [patient_pesel |-> pesel,
                                      item_type |-> data.item_type,
                                      item_id |-> data.item_id,
                                      amount |-> data.amount],
                            treatments |-> << >>,
                            tx |-> Some(ChargeTables(r.db)),
                            ret |-> Some(r.ret)]]
    /\ write_lock' = k
    /\ UNCHANGED tables

\* update_payment_for_item: "database is locked" on the UPDATE; the
\* handler rolls back and returns False.
UpdateBusy(k) ==
    /\ conns[k].pc = "idle"
    /\ write_lock # 0
    /\ \E pesel \in Pesels, data \in RacePaymentInputs :
          conns' = [conns EXCEPT ![k] =
                       [pc |-> "done", call |-> "update_payment",
                        args |-> [patient_pesel |-> pesel,
                                  item_type |-> data.item_type,
                                  item_id |-> data.item_id,
                                  amount |-> data.amount],
                        treatments |-> << >>, tx |-> NULL,
                        ret |-> Some(FALSE)]]
    /\ UNCHANGED <<tables, write_lock>>

\* conn.commit(): the transaction's changes reach the tables.
Commit(k) ==
    /\ conns[k].pc = "executed"
    /\ treatment_pricing' = conns[k].tx[1].treatment_pricing
    /\ visits' = conns[k].tx[1].visits
    /\ product_sales' = conns[k].tx[1].product_sales
    /\ conns' = [conns EXCEPT ![k].pc = "done", ![k].tx = NULL]
    /\ write_lock' = IF write_lock = k THEN 0 ELSE write_lock
    /\ UNCHANGED <<patients, clinic_treatment_plans, clinic_treatments,
                   payments, available_treatments>>

\* Concurrent syncs of a plan saved before any of them starts.
SyncRaceSetup ==
    /\ NoCallStarted
    /\ \/ SavePatient
       \/ SaveClinicTreatmentPlan(PlanInputs)

NextSyncRace ==
    \/ SyncRaceSetup
    \/ \E k \in 1..NumConns : SyncSelect(k)
    \/ \E k \in 1..NumConns : SyncExecute(k)
    \/ \E k \in 1..NumConns : SyncBusy(k)
    \/ \E k \in 1..NumConns : Commit(k)

SpecSyncRace == Init /\ [][NextSyncRace]_vars

\* Concurrent payments on charge lines created before any of them starts.
PayRaceSetup ==
    /\ NoCallStarted
    /\ \/ SavePatient
       \/ AddVisitBilling
       \/ AddTreatmentPricingApi

NextPayRace ==
    \/ PayRaceSetup
    \/ \E k \in 1..NumConns : UpdateExecute(k)
    \/ \E k \in 1..NumConns : UpdateBusy(k)
    \/ \E k \in 1..NumConns : Commit(k)

SpecPayRace == Init /\ [][NextPayRace]_vars

\* The ledger with several payments of a patient, for the summary.
SummaryWithinBounds(db) ==
    /\ WithinBounds([db EXCEPT !.payments = << >>])
    /\ Len(db.payments) <= MaxSummaryPayments

AddPaymentApiSummary ==
    \E pesel \in Pesels, data \in PaymentInputs,
       insert_ok \in BOOLEAN, update_ok \in BOOLEAN :
        LET r == add_payment_api(DB, pesel, data, insert_ok, update_ok)
        IN  /\ SummaryWithinBounds(r.db)
            /\ Install(r.db)
            /\ UNCHANGED <<conns, write_lock>>

NextSummary ==
    \/ SavePatient
    \/ AddVisitBilling
    \/ AddTreatmentPricingApi
    \/ AddPaymentApiSummary

SpecSummary == Init /\ [][NextSummary]_vars

(***************************************************************************)
(* The status of the clinic treatments and its history.                    *)
(***************************************************************************)
Statuses == {"todo", "in_progress", "done"}

\* The history a request to save a plan may send with a treatment: none,
\* a list of one entry, a JSON object.
HistoryInputs ==
    {EmptyHistory,
     [json |-> "list", items |-> << [from |-> "done", to |-> "todo"] >>],
     [json |-> "object", items |-> << >>]}

HistoryPlanInputs ==
    {<<[treatment_name |-> "Terapia laserowa",
        treatment_type |-> Some("laser"), quantity |-> 1,
        history |-> h]>> : h \in HistoryInputs}

StatusUpdateInputs ==
    {[status |-> st] : st \in Statuses}
    \cup {[status |-> "done", quantity |-> 2], [quantity |-> 2]}

HistoryWithinBounds(db) ==
    /\ WithinBounds(db)
    /\ \A t \in 1..Len(db.clinic_treatments) :
          Len(db.clinic_treatments[t].history.items) <= MaxHistory

UpdateClinicTreatmentStatus ==
    \E treatment_id \in 1..(Len(clinic_treatments) + 1),
       updates \in StatusUpdateInputs :
        LET r == update_clinic_treatment(DB, treatment_id, updates)
        IN  /\ HistoryWithinBounds(r.db)
            /\ Install(r.db)
            /\ UNCHANGED <<conns, write_lock>>

NextHistory ==
    \/ SavePatient
    \/ SaveClinicTreatmentPlan(HistoryPlanInputs)
    \/ UpdateClinicTreatmentStatus

SpecHistory == Init /\ [][NextHistory]_vars

(***************************************************************************)
(* The catalog requests, next to the plan and its synchronization.         *)
(***************************************************************************)
CatalogAddInputs ==
    [name : {Some("Laser"), Some("Terapia LED"), Some("")},
     type : {Some("laser")}, default_price : {Some(150), NULL}]

\* A seeded entry, the entry a request adds, and an id of no entry.
CatalogIds == {2, MaxCatalog, MaxCatalog + 1}

NoCatalogFields ==
    [name |-> NULL, type |-> NULL, default_price |-> NULL,
     description |-> NULL]

CatalogUpdateInputs ==
    {NoCatalogFields,
     [NoCatalogFields EXCEPT !.name = Some("Laser")],
     [NoCatalogFields EXCEPT !.name = Some("Terapia LED")],
     [NoCatalogFields EXCEPT !.default_price = Some(150)],
     [NoCatalogFields EXCEPT !.type = Some("other"),
                             !.description = Some("nowy")]}

CatalogWithinBounds(db) ==
    /\ WithinBounds(db)
    /\ Len(db.available_treatments) <= MaxCatalog

AddTreatmentApi ==
    \E data \in CatalogAddInputs, storage_ok \in BOOLEAN :
        LET r == add_treatment_api(DB, data, storage_ok)
        IN  /\ CatalogWithinBounds(r.db)
            /\ Install(r.db)
            /\ UNCHANGED <<conns, write_lock>>

UpdateTreatmentApi ==
    \E treatment_id \in CatalogIds, data \in CatalogUpdateInputs,
       storage_ok \in BOOLEAN :
        LET r == update_treatment_api(DB, treatment_id, data, storage_ok)
        IN  /\ CatalogWithinBounds(r.db)
            /\ Install(r.db)
            /\ UNCHANGED <<conns, write_lock>>

DeleteTreatmentApi ==
    \E treatment_id \in CatalogIds, storage_ok \in BOOLEAN :
        LET r == delete_treatment_api(DB, treatment_id, storage_ok)
        IN  /\ CatalogWithinBounds(r.db)
            /\ Install(r.db)
            /\ UNCHANGED <<conns, write_lock>>

NextCatalog ==
    \/ SavePatient
    \/ SaveClinicTreatmentPlan(PlanInputs)
    \/ GetPatientTreatmentsBilling
    \/ AddTreatmentApi
    \/ UpdateTreatmentApi
    \/ DeleteTreatmentApi

SpecCatalog == Init /\ [][NextCatalog]_vars

(***************************************************************************)
(* The synchronizer's claims.                                              *)
(***************************************************************************)
\* The treatment charge lines that refer to a clinic treatment.
LinesFor(db, treatment_id) ==
    {i \in 1..Len(db.treatment_pricing) :
        db.treatment_pricing[i].reference_id = Some(treatment_id)}

\* C1: idempotent sync.  In every reachable state and for every patient, a
\* second sync_clinic_treatments_to_billing right after a first one (no
\* storage failure, nothing changed in between) returns 0 and leaves the
\* treatment charge lines as the first call left them.
C1_IdempotentSync ==
    \A pesel \in Pesels :
        LET first == sync_clinic_treatments_to_billing(DB, pesel, TRUE)
            second == sync_clinic_treatments_to_billing(first.db, pesel, TRUE)
        IN  /\ second.ret = 0
            /\ second.db.treatment_pricing = first.db.treatment_pricing

\* C2: no duplication under concurrent syncs.  When the syncs of a plan run
\* on connections of their own, in any interleaving, no clinic treatment
\* that carries a treatment_type has two charge lines whose reference_id is
\* its id.
C2_NoDuplicationUnderConcurrency ==
    \A t \in 1..Len(clinic_treatments) :
        clinic_treatments[t].treatment_type # NULL
            => Cardinality(LinesFor(DB, t)) <= 1

(***************************************************************************)
(* The claims on the allocation of payments.                               *)
(***************************************************************************)
\* The connections whose update_payment_for_item on the row item_id of the
\* table item_type has committed and returned True.
SucceededOn(item_type, item_id) ==
    {k \in 1..NumConns :
        /\ conns[k].pc = "done"
        /\ conns[k].call = "update_payment"
        /\ conns[k].ret = Some(TRUE)
        /\ conns[k].args.item_type = item_type
        /\ conns[k].args.item_id = Some(item_id)}

\* The sum of the amounts of those calls.
AllocatedTo(item_type, item_id) ==
    SumSeq([k \in 1..NumConns |->
               IF k \in SucceededOn(item_type, item_id)
               THEN conns[k].args.amount ELSE 0])

\* C3: allocation atomicity.  When update_payment_for_item calls run on
\* connections of their own against charge lines not yet paid, in any
\* interleaving, every line's paid_amount is its previous value (0) plus the
\* amounts of all the calls on it that returned True: no increment is lost.
C3_NoLostAllocation ==
    /\ \A i \in 1..Len(treatment_pricing) :
          treatment_pricing[i].paid_amount
              = AllocatedTo("treatment", treatment_pricing[i].id)
    /\ \A i \in 1..Len(visits) :
          visits[i].paid_amount = AllocatedTo("visit", visits[i].id)

\* Two calls on the same treatment charge line have both returned True.
C3_BothSucceeded ==
    \E i \in 1..Len(treatment_pricing) :
        /\ Cardinality(SucceededOn("treatment", treatment_pricing[i].id)) = 2
        /\ treatment_pricing[i].paid_amount > 2

\* The sum of paid_amount over every charge line of a patient.
TotalCredited(db, pesel) ==
    SumOf(db.treatment_pricing, "patient_pesel", pesel, "paid_amount")
    + SumOf(db.visits, "pesel", pesel, "paid_amount")
    + SumOf(db.product_sales, "patient_pesel", pesel, "paid_amount")

\* C4: payment creation and allocation are one step.  In every reachable
\* state, whenever add_payment_api answers success to a payment that
\* carries a reference, the charge lines of the patient have been credited
\* with the amount of the payment.
C4_PaymentAllocationAtomic ==
    \A pesel \in Pesels, data \in PaymentInputs,
       insert_ok \in BOOLEAN, update_ok \in BOOLEAN :
        LET r == add_payment_api(DB, pesel, data, insert_ok, update_ok)
        IN  (/\ r.ret.success
             /\ data.reference_id # NULL
             /\ data.reference_type # NULL)
                => TotalCredited(r.db, pesel)
                       = TotalCredited(DB, pesel) + data.amount

\* C5: at most one treatment charge line per key.  In every reachable state
\* no two rows of treatment_pricing have the same patient, the same (non
\* null) reference_id, the same treatment_name and the same (non null)
\* treatment_type.
LineKey(tp) ==
    <<tp.patient_pesel, tp.reference_id, tp.treatment_name, tp.treatment_type>>

C5_OneLinePerKey ==
    \A i, j \in 1..Len(treatment_pricing) :
        (/\ i # j
         /\ treatment_pricing[i].reference_id # NULL
         /\ treatment_pricing[i].treatment_type # NULL)
            => LineKey(treatment_pricing[i]) # LineKey(treatment_pricing[j])

\* C6: exactly once per treatment instance.  Where every charge line comes
\* from the synchronizer, no clinic treatment has two charge lines whose
\* reference_id is its id, whatever edits were made between two syncs.
\* Stated for the lines that carry a treatment_type: those of an instance
\* that had one at every sync.
C6_OncePerInstance ==
    \A t \in 1..Len(clinic_treatments) :
        Cardinality({i \in LinesFor(DB, t) :
                        treatment_pricing[i].treatment_type # NULL}) <= 1

(***************************************************************************)
(* The claims on update_payment_for_item.                                  *)
(***************************************************************************)
\* C7: paid_amount never decreases.  No step of the ledger takes the
\* paid_amount of a treatment charge line or of a visit below the value it
\* had, whatever amount the caller supplies.
C7_PaidNeverDecreases ==
    [][/\ \A i \in 1..Len(treatment_pricing) :
             treatment_pricing'[i].paid_amount
                 >= treatment_pricing[i].paid_amount
       /\ \A i \in 1..Len(visits) :
             visits'[i].paid_amount >= visits[i].paid_amount]_vars

\* The rows of a table that the item {item_type, item_id} of a patient
\* resolves to: those of the table the kind names, with that id, owned by
\* that patient.
Resolved(db, patient_pesel, item_type, item_id, table) ==
    LET rows == db[table]
        owner == IF table = "visits" THEN "pesel" ELSE "patient_pesel"
        kind == IF table = "treatment_pricing" THEN "treatment"
                ELSE IF table = "visits" THEN "visit" ELSE "product"
    IN  {i \in 1..Len(rows) :
            /\ item_type = kind
            /\ item_id = Some(rows[i].id)
            /\ rows[i][owner] = patient_pesel}

ChargeTableNames == {"treatment_pricing", "visits", "product_sales"}

\* The amounts and the ids a caller may send, those of the requests and a
\* large one, an absent id and an unknown one.
CallerAmounts == Amounts \cup {0, 1000}
CallerItemIds == ItemIds \cup {NULL, Some(MaxLines + 1)}

\* C8: the increment is exact and touches one line.  In every reachable
\* state and for every item and amount, update_payment_for_item adds exactly
\* the amount to the paid_amount of the rows the item resolves to, without
\* any clamp, changes no other column of them (the amount charged
\* included), and changes no other row of any table.
C8_ExactIncrement ==
    \A pesel \in Pesels, item_type \in ItemTypes, item_id \in CallerItemIds,
       amount \in CallerAmounts :
        LET r == update_payment_for_item(DB, pesel, item_type, item_id,
                                         amount, TRUE)
        IN  /\ \A table \in ChargeTableNames :
                  /\ Len(r.db[table]) = Len(DB[table])
                  /\ \A i \in 1..Len(DB[table]) :
                        IF i \in Resolved(DB, pesel, item_type, item_id, table)
                        THEN r.db[table][i] =
                                 [DB[table][i] EXCEPT
                                     !.paid_amount = @ + amount]
                        ELSE r.db[table][i] = DB[table][i]
            /\ r.db.patients = DB.patients
            /\ r.db.payments = DB.payments
            /\ r.db.clinic_treatment_plans = DB.clinic_treatment_plans
            /\ r.db.clinic_treatments = DB.clinic_treatments
            /\ r.db.available_treatments = DB.available_treatments

\* A visit has been paid more than it costs, or less than nothing, next to
\* a treatment charge line left as it was.
C8_Overpaid ==
    /\ \E i \in 1..Len(visits) :
          \/ visits[i].paid_amount > visits[i].cost
          \/ visits[i].paid_amount < 0
    /\ \E i \in 1..Len(treatment_pricing) :
          treatment_pricing[i].paid_amount = 0

\* C9: an item that does not resolve changes nothing.  In every reachable
\* state, when the item resolves to no row of the patient (unknown id, id
\* of another patient's row, kind that names no table),
\* update_payment_for_item returns False and leaves every table as it was.
C9_UnresolvedNoChange ==
    \A pesel \in Pesels, item_type \in ItemTypes, item_id \in CallerItemIds,
       amount \in CallerAmounts :
        (\A table \in ChargeTableNames :
            Resolved(DB, pesel, item_type, item_id, table) = {})
            => LET r == update_payment_for_item(DB, pesel, item_type, item_id,
                                                amount, TRUE)
               IN  /\ r.ret = FALSE
                   /\ r.db = DB

\* A payment was recorded with a reference to a visit of another patient,
\* and that visit is still unpaid.
C9_OtherPatientsItem ==
    \E p \in 1..Len(payments), v \in 1..Len(visits) :
        /\ payments[p].reference_type = Some("visit")
        /\ payments[p].reference_id = Some(visits[v].id)
        /\ payments[p].patient_pesel # visits[v].pesel
        /\ visits[v].paid_amount = 0

(***************************************************************************)
(* The claims on the payment summary.                                      *)
(***************************************************************************)
\* The sum of a column over the rows of a table whose indices are in S.
RECURSIVE SumRows(_, _, _)
SumRows(rows, S, column) ==
    IF S = {} THEN 0
    ELSE LET i == CHOOSE x \in S : TRUE
         IN  rows[i][column] + SumRows(rows, S \ {i}, column)

\* C10: the summary adds up.  In every reachable state and for every
\* patient, total_due of get_payment_summary is the sum of price over the
\* patient's treatment charge lines, plus the sum of total_price over the
\* patient's product sales, plus the sum of cost over the patient's visits,
\* and is the sum of the three totals the summary reports.
C10_SummaryAdditivity ==
    \A pesel \in Pesels :
        LET s == get_payment_summary(DB, pesel)
            mine(table, owner) ==
                {i \in 1..Len(DB[table]) : DB[table][i][owner] = pesel}
        IN  /\ s.total_due =
                  SumRows(treatment_pricing,
                          mine("treatment_pricing", "patient_pesel"), "price")
                  + SumRows(product_sales,
                            mine("product_sales", "patient_pesel"),
                            "total_price")
                  + SumRows(visits, mine("visits", "pesel"), "cost")
            /\ s.total_due =
                  s.treatments.total + s.products.total + s.visits.total

\* A patient has a treatment charge line and a visit, both charged, and
\* another patient has a charge of their own.
C10_MixedLedger ==
    \E pesel \in Pesels, other \in Pesels :
        /\ other # pesel
        /\ get_payment_summary(DB, pesel).treatments.total > 0
        /\ get_payment_summary(DB, pesel).visits.total > 0
        /\ get_payment_summary(DB, other).total_due > 0

\* The rows of a table owned by a patient.
RowsOf(db, table, owner, pesel) ==
    {i \in 1..Len(db[table]) : db[table][i][owner] = pesel}

\* C11: total paid and balance.  In every reachable state and for every
\* patient, total_paid of get_payment_summary is the sum of amount over the
\* patient's payments whose status is "paid", is the same whatever the
\* charge lines hold, and balance is total_paid - total_due.
C11_TotalPaidAndBalance ==
    \A pesel \in Pesels :
        LET s == get_payment_summary(DB, pesel)
            paid == {i \in RowsOf(DB, "payments", "patient_pesel", pesel) :
                        payments[i].status = "paid"}
            no_lines == [DB EXCEPT !.treatment_pricing = << >>,
                                   !.visits = << >>,
                                   !.product_sales = << >>]
        IN  /\ s.total_paid = SumRows(payments, paid, "amount")
            /\ s.total_paid = get_payment_summary(no_lines, pesel).total_paid
            /\ s.balance = s.total_paid - s.total_due

\* A patient has made two payments of different amounts, and the amounts
\* credited to the patient's charge lines differ from the amounts paid.
C11_TwoPayments ==
    \E pesel \in Pesels :
        /\ Cardinality(RowsOf(DB, "payments", "patient_pesel", pesel)) = 2
        /\ payments[1].amount # payments[2].amount
        /\ TotalCredited(DB, pesel) > 0
        /\ TotalCredited(DB, pesel) # get_payment_summary(DB, pesel).total_paid

\* C12: category outstanding.  In every reachable state, for every patient
\* and each category of get_payment_summary, paid is the sum of paid_amount
\* over the patient's lines of the category and outstanding is total - paid,
\* negative when the category is overpaid.
C12_CategoryOutstanding ==
    \A pesel \in Pesels :
        LET s == get_payment_summary(DB, pesel)
            paid(table, owner) ==
                SumRows(DB[table], RowsOf(DB, table, owner, pesel),
                        "paid_amount")
        IN  /\ s.treatments.paid = paid("treatment_pricing", "patient_pesel")
            /\ s.products.paid = paid("product_sales", "patient_pesel")
            /\ s.visits.paid = paid("visits", "pesel")
            /\ s.treatments.outstanding
                   = s.treatments.total - s.treatments.paid
            /\ s.products.outstanding = s.products.total - s.products.paid
            /\ s.visits.outstanding = s.visits.total - s.visits.paid

\* The visits of a patient are overpaid: their outstanding amount is
\* negative.
C12_OverpaidCategory ==
    \E pesel \in Pesels :
        /\ get_payment_summary(DB, pesel).visits.paid > 0
        /\ get_payment_summary(DB, pesel).visits.outstanding < 0

(***************************************************************************)
(* The claims on the lines the synchronizer creates.                       *)
(***************************************************************************)
\* The fallback prices by treatment type.
FallbackTable ==
    [injection |-> 350, laser |-> 200, massage |-> 150, mesotherapy |-> 300,
     led |-> 100, microneedling |-> 250, prp |-> 400, carboxytherapy |-> 180,
     peeling |-> 120, consultation |-> 80, other |-> 100]

\* The unit price the catalog and the fallback table give a clinic
\* treatment: that of the active entry with exactly its name, else that of
\* its type in the table, else 100.
ExpectedUnitPrice(db, ct) ==
    LET active == {i \in 1..Len(db.available_treatments) :
                      /\ db.available_treatments[i].name = ct.treatment_name
                      /\ db.available_treatments[i].is_active = 1}
    IN  IF active # {}
        THEN db.available_treatments[CHOOSE i \in active : TRUE].default_price
        ELSE IF ct.treatment_type # NULL
                /\ ct.treatment_type[1] \in DOMAIN FallbackTable
        THEN FallbackTable[ct.treatment_type[1]]
        ELSE 100

\* The rows a call appended to treatment_pricing.
NewLines(before, after) ==
    (Len(before.treatment_pricing) + 1)..Len(after.treatment_pricing)

InstancesOf(db, pesel) ==
    {t \in 1..Len(db.clinic_treatments) :
        PlanPesel(db, db.clinic_treatments[t]) = pesel}

\* C14: sync count and completeness.  In every reachable state and for
\* every patient, a sync without storage failure returns the number of rows
\* it appended to treatment_pricing, leaves the earlier rows as they were,
\* gives each new row paid_amount 0, and afterwards every clinic treatment
\* of the patient's plans has a row of the patient with its treatment_name,
\* its treatment_type and reference_id equal to its id.
C14_SyncCountAndCompleteness ==
    \A pesel \in Pesels :
        LET r == sync_clinic_treatments_to_billing(DB, pesel, TRUE)
            after == r.db.treatment_pricing
        IN  /\ r.ret = Len(after) - Len(treatment_pricing)
            /\ SubSeq(after, 1, Len(treatment_pricing)) = treatment_pricing
            /\ \A i \in NewLines(DB, r.db) : after[i].paid_amount = 0
            /\ \A t \in InstancesOf(DB, pesel) :
                  \E i \in 1..Len(after) :
                      /\ after[i].patient_pesel = pesel
                      /\ after[i].treatment_name
                             = clinic_treatments[t].treatment_name
                      /\ after[i].treatment_type
                             = clinic_treatments[t].treatment_type
                      /\ after[i].reference_id = Some(t)

\* A patient has a line made by an earlier sync and a clinic treatment that
\* the next sync will bill.
C14_SyncedAndMissing ==
    \E pesel \in Pesels :
        /\ \E i \in 1..Len(treatment_pricing) :
              /\ treatment_pricing[i].patient_pesel = pesel
              /\ treatment_pricing[i].reference_id # NULL
        /\ MissingTreatments(DB, pesel) # << >>

\* C15: partial failure of the sync batch.  In every reachable state and
\* for every patient with at least two missing lines, a sync whose k-th
\* INSERT (k > 1) fails leaves the k-1 rows inserted before it in
\* treatment_pricing and returns k-1.
C15_PartialFailureKeepsLines ==
    \A pesel \in Pesels :
        LET missing == MissingTreatments(DB, pesel)
        IN  \A k \in 2..Len(missing) :
                LET r == SyncInsertFailingAt(DB, pesel, missing, k)
                IN  /\ Len(r.db.treatment_pricing)
                           = Len(treatment_pricing) + k - 1
                    /\ r.ret = k - 1

\* C16: sync projects only the active plan.  In every reachable state and
\* for every patient, each line a sync creates refers to a clinic treatment
\* of a plan that is active.
C16_OnlyActivePlan ==
    \A pesel \in Pesels :
        LET r == sync_clinic_treatments_to_billing(DB, pesel, TRUE)
        IN  \A i \in NewLines(DB, r.db) :
                LET t == r.db.treatment_pricing[i].reference_id[1]
                IN  clinic_treatment_plans[clinic_treatments[t].plan_id]
                        .is_active = 1

(***************************************************************************)
(* The claims on the catalog.                                              *)
(***************************************************************************)
\* Every table but the catalog is the same in two databases.
SameButCatalog(before, after) ==
    [after EXCEPT !.available_treatments = before.available_treatments]
        = before

\* C17: deactivating a catalog entry is a soft delete without ledger effect.
\* In every reachable state, delete_available_treatment on an existing id
\* sets is_active of that entry to 0 and changes nothing else: no entry is
\* removed, every other entry and every other table (the charge lines with
\* their price and paid_amount) is as before; on an id of no entry it
\* returns a failure and changes nothing.
C17_SoftDeleteNoLedgerEffect ==
    \A treatment_id \in CatalogIds :
        LET r == delete_available_treatment(DB, treatment_id, TRUE)
        IN  IF treatment_id \in 1..Len(available_treatments)
            THEN /\ r.ret.success
                 /\ r.db.available_treatments =
                        [available_treatments EXCEPT
                            ![treatment_id].is_active = 0]
                 /\ SameButCatalog(DB, r.db)
            ELSE /\ ~ r.ret.success
                 /\ r.ret.error = "not found"
                 /\ r.db = DB

\* An entry is inactive and a charge line made from it keeps its price.
C17_DeactivatedAfterCharge ==
    \E i \in 1..Len(available_treatments),
       j \in 1..Len(treatment_pricing) :
        /\ available_treatments[i].is_active = 0
        /\ treatment_pricing[j].treatment_name = available_treatments[i].name
        /\ treatment_pricing[j].price = 400

\* The names a request may carry: a new one, that of a seeded entry, none.
CallerNames == {NULL, Some("Laser"), Some("Terapia LED")}

\* C18: catalog names are globally unique.  In every reachable state no two
\* entries, active or not, have the same name; add_available_treatment with
\* the name of any entry, and update_available_treatment with the name of
\* another entry, return the duplicate-name failure and change nothing.
C18_UniqueCatalogNames ==
    /\ \A i, j \in 1..Len(available_treatments) :
          i # j => available_treatments[i].name # available_treatments[j].name
    /\ \A i \in 1..Len(available_treatments) :
          LET name == Some(available_treatments[i].name)
              added == add_available_treatment(DB, name, Some("laser"),
                                               Some(150), "", TRUE)
          IN  /\ ~ added.ret.success
              /\ added.ret.error = "duplicate name"
              /\ added.db = DB
              /\ \A treatment_id \in 1..Len(available_treatments) :
                    treatment_id # i =>
                        LET renamed == update_available_treatment(
                                           DB, treatment_id, name, NULL, NULL,
                                           NULL, NULL, TRUE)
                        IN  /\ ~ renamed.ret.success
                            /\ renamed.ret.error = "duplicate name"
                            /\ renamed.db = DB

\* An entry was added next to a deactivated one.
C18_AddedNextToInactive ==
    /\ Len(available_treatments) = MaxCatalog
    /\ \E i \in 1..Len(available_treatments) :
          available_treatments[i].is_active = 0

\* C19: partial catalog update.  In every reachable state,
\* update_available_treatment on an existing entry, with at least one field
\* and no name of another entry, succeeds and changes exactly the fields
\* supplied, of that entry only; on an id of no entry, or without any
\* field, it returns a failure and changes nothing.
C19_PartialCatalogUpdate ==
    \A treatment_id \in CatalogIds, name \in CallerNames,
       treatment_type \in {NULL, Some("other")},
       default_price \in {NULL, Some(150)},
       description \in {NULL, Some("nowy")}, is_active \in {NULL, Some(0)} :
        LET r == update_available_treatment(
                     DB, treatment_id, name, treatment_type, default_price,
                     description, is_active, TRUE)
            fields == [name |-> name, type |-> treatment_type,
                       default_price |-> default_price,
                       description |-> description, is_active |-> is_active]
            exists == treatment_id \in 1..Len(available_treatments)
            none == \A f \in DOMAIN fields : fields[f] = NULL
            before == available_treatments
            after == r.db.available_treatments
        IN  /\ SameButCatalog(DB, r.db)
            /\ Len(after) = Len(before)
            /\ (~ exists \/ none) => (~ r.ret.success /\ r.db = DB)
            /\ (exists /\ ~ none /\ ~ NameTaken(DB, name, treatment_id))
                   => r.ret.success
            /\ r.ret.success =>
                  /\ \A i \in 1..Len(before) :
                        i # treatment_id => after[i] = before[i]
                  /\ after[treatment_id].id = before[treatment_id].id
                  /\ \A f \in DOMAIN fields :
                        after[treatment_id][f] =
                            IF fields[f] # NULL THEN fields[f][1]
                            ELSE before[treatment_id][f]

\* An entry has a new type and description, and the name and the price it
\* was seeded with.
C19_TypeChangedOnly ==
    \E i \in 1..Len(available_treatments) :
        /\ available_treatments[i].type = "other"
        /\ available_treatments[i].description = "nowy"
        /\ available_treatments[i].name = "Terapia laserowa"
        /\ available_treatments[i].default_price = 200
        /\ available_treatments[i].is_active = 0

(***************************************************************************)
(* The claim on the status history.                                        *)
(***************************************************************************)
\* C20: history correctness.  In every reachable state and for every clinic
\* treatment, update_clinic_treatment with a status that differs from the
\* stored one appends exactly the entry {from: stored status, to: new
\* status} to the stored history; with the stored status, or without a
\* status, it leaves the history as it was; any status may follow any other.
C20_HistoryCorrectness ==
    \A t \in 1..Len(clinic_treatments), updates \in StatusUpdateInputs :
        LET before == clinic_treatments[t]
            after == update_clinic_treatment(DB, t, updates)
                         .db.clinic_treatments[t]
        IN  IF "status" \in DOMAIN updates /\ updates.status # before.status
            THEN /\ after.status = updates.status
                 /\ after.history.items =
                        Append(before.history.items,
                               [from |-> before.status,
                                to |-> updates.status])
            ELSE after.history = before.history

(***************************************************************************)
(* The visit billing view.  visit_date is a TEXT column holding ISO dates  *)
(* (YYYY-MM-DD), whose text order is the order of the dates; the dates are *)
(* numbered here in that order.                                            *)
(***************************************************************************)
MaxBillingVisits == 3

\* A WHERE clause without the test on the cost.
AnyVisitOf(visit, patient_pesel) == visit.pesel = patient_pesel

\* WHERE pesel = ? AND COALESCE(cost, 0) > 0
BilledVisitOf(visit, patient_pesel) ==
    visit.pesel = patient_pesel /\ visit.cost > 0

\* One step of ORDER BY visit_date DESC: the row goes after the rows of a
\* later or equal date.
InsertByDateDesc(sorted, row) ==
    LET k == Cardinality({i \in 1..Len(sorted) :
                             sorted[i].visit_date >= row.visit_date})
    IN  SubSeq(sorted, 1, k) \o <<row>> \o SubSeq(sorted, k + 1, Len(sorted))

RECURSIVE OrderByVisitDateDesc(_)
OrderByVisitDateDesc(rows) ==
    IF rows = << >> THEN << >>
    ELSE InsertByDateDesc(OrderByVisitDateDesc(SubSeq(rows, 1, Len(rows) - 1)),
                          rows[Len(rows)])

\* The dictionary built from one row of the SELECT.
VisitBillingRow(visit) ==
    LET outstanding == visit.cost - visit.paid_amount
    IN  [id |-> visit.id, visit_date |-> visit.visit_date,
         cost |-> visit.cost, paid_amount |-> visit.paid_amount,
         outstanding |-> outstanding,
         status |-> IF outstanding <= 0 THEN "paid" ELSE "unpaid"]

get_patient_visits_for_billing(db, patient_pesel, storage_ok) ==
    IF ~ storage_ok THEN << >>
    ELSE LET rows == OrderByVisitDateDesc(
                         SelectSeq(db.visits,
                                   LAMBDA v : BilledVisitOf(v, patient_pesel)))
         IN  [i \in 1..Len(rows) |-> VisitBillingRow(rows[i])]

\* GET /api/patient/{pesel}/visits-billing
get_patient_visits_billing(db, pesel, storage_ok) ==
    [db |-> db,
     ret |-> [status_code |-> 200,
              visits |-> get_patient_visits_for_billing(db, pesel,
                                                        storage_ok)]]

VisitBillingInputs == [visit_date : {1, 2}, cost : {0, 2}]

VisitPaymentInputs ==
    [item_type : {"visit"}, item_id : {Some(i) : i \in 1..MaxBillingVisits},
     amount : Amounts]

VisitsWithinBounds(db) ==
    /\ WithinBounds([db EXCEPT !.visits = << >>])
    /\ Len(db.visits) <= MaxBillingVisits
    /\ \A i \in 1..Len(db.visits) : Abs(db.visits[i].paid_amount) <= MaxPaid

AddVisitBillingDated ==
    \E pesel \in Pesels, data \in VisitBillingInputs, storage_ok \in BOOLEAN :
        LET r == add_visit_billing(DB, pesel, data, storage_ok)
        IN  /\ VisitsWithinBounds(r.db)
            /\ Install(r.db)
            /\ UNCHANGED <<conns, write_lock>>

UpdateVisitPaymentApi ==
    \E pesel \in Pesels, data \in VisitPaymentInputs, storage_ok \in BOOLEAN :
        LET r == update_item_payment_api(DB, pesel, data, storage_ok)
        IN  /\ VisitsWithinBounds(r.db)
            /\ Install(r.db)
            /\ UNCHANGED <<conns, write_lock>>

NextVisits ==
    \/ SavePatient
    \/ AddVisitBillingDated
    \/ UpdateVisitPaymentApi

SpecVisits == Init /\ [][NextVisits]_vars

(***************************************************************************)
(* The claim on the visit billing view.                                    *)
(***************************************************************************)
\* C21: visit billing view.  In every reachable state and for every
\* patient, get_patient_visits_for_billing (when storage answers) returns
\* one entry for each of the patient's visits with cost > 0 and no other
\* entry, each with outstanding = cost - paid_amount and status "paid" if
\* and only if outstanding <= 0 and "unpaid" otherwise, in descending order
\* of visit date, and the stored state after the call is the state before.
C21_VisitBillingView ==
    \A p \in Pesels :
        LET r == get_patient_visits_billing(DB, p, TRUE)
            view == r.ret.visits
            billed == {j \in 1..Len(visits) :
                          visits[j].pesel = p /\ visits[j].cost > 0}
        IN  /\ r.db = DB
            /\ Len(view) = Cardinality(billed)
            /\ {view[i].id : i \in 1..Len(view)} =
                   {visits[j].id : j \in billed}
            /\ \A i \in 1..Len(view) :
                  \E j \in billed :
                      /\ visits[j].id = view[i].id
                      /\ view[i].visit_date = visits[j].visit_date
                      /\ view[i].outstanding =
                             visits[j].cost - visits[j].paid_amount
                      /\ view[i].status \in {"paid", "unpaid"}
                      /\ view[i].status = "paid" <=> view[i].outstanding <= 0
            /\ \A i \in 1..(Len(view) - 1) :
                  view[i].visit_date >= view[i + 1].visit_date

\* A patient has a visit without cost and two billed visits, the later one
\* stored first in the view, one of them paid and the other not.
C21_TwoBilledVisits ==
    \E p \in Pesels :
        LET view == get_patient_visits_for_billing(DB, p, TRUE)
        IN  /\ \E j \in 1..Len(visits) :
                  visits[j].pesel = p /\ visits[j].cost = 0
            /\ Len(view) = 2
            /\ view[1].id > view[2].id
            /\ view[1].visit_date > view[2].visit_date
            /\ {view[1].status, view[2].status} = {"paid", "unpaid"}

(***************************************************************************)
(* The claim on the payment records.                                       *)
(***************************************************************************)
\* C22: payment records are append-only.  In every reachable state, every
\* operation (adding a payment, allocating a payment to an item, the sync,
\* adding a visit or a treatment price, saving or updating the plan, the
\* catalog operations, saving a patient) leaves every stored payment
\* record as it was, field by field and in place; add_payment alone adds a
\* record, at most one, and that record has status "paid".
C22_PaymentsAppendOnly ==
    LET Kept(db) ==
            /\ Len(db.payments) >= Len(payments)
            /\ SubSeq(db.payments, 1, Len(payments)) = payments
        Untouched(db) == db.payments = payments
        OneAdded(db, pesel, data) ==
            /\ Kept(db)
            /\ Len(db.payments) <= Len(payments) + 1
            /\ Len(db.payments) = Len(payments) + 1 =>
                   LET new == db.payments[Len(db.payments)]
                   IN  /\ new.status = "paid"
                       /\ new.patient_pesel = pesel
                       /\ new.amount = data.amount
                       /\ \A i \in 1..Len(payments) :
                             payments[i].id # new.id
    IN  /\ \A pesel \in Pesels, data \in PaymentInputs,
              insert_ok \in BOOLEAN, update_ok \in BOOLEAN :
              /\ OneAdded(add_payment_api(DB, pesel, data, insert_ok,
                                          update_ok).db, pesel, data)
              /\ OneAdded(add_payment(DB, pesel, data.amount,
                                      data.reference_id, data.reference_type,
                                      insert_ok).db, pesel, data)
              /\ insert_ok /\ get_patient(DB, pesel) =>
                     Len(add_payment_api(DB, pesel, data, insert_ok,
                                         update_ok).db.payments)
                         = Len(payments) + 1
        /\ \A pesel \in Pesels, data \in ItemPaymentInputs,
              storage_ok \in BOOLEAN :
              Untouched(update_item_payment_api(DB, pesel, data,
                                                storage_ok).db)
        /\ \A pesel \in Pesels, storage_ok \in BOOLEAN :
              /\ Untouched(get_patient_treatments_billing(DB, pesel,
                                                          storage_ok).db)
              /\ Untouched(get_patient_visits_billing(DB, pesel,
                                                      storage_ok).db)
              /\ \A data \in VisitInputs :
                    Untouched(add_visit_billing(DB, pesel, data,
                                                storage_ok).db)
              /\ \A data \in PricingInputs :
                    Untouched(add_treatment_pricing_api(DB, pesel, data,
                                                        storage_ok).db)
        /\ \A pesel \in Pesels :
              /\ Untouched(save_patient(DB, pesel).db)
              /\ \A treatments \in PlanInputs :
                    Untouched(save_clinic_treatment_plan(DB, pesel,
                                                         treatments).db)
        /\ \A t \in 1..(Len(clinic_treatments) + 1),
              updates \in UpdateInputs :
              Untouched(update_clinic_treatment(DB, t, updates).db)
        /\ \A storage_ok \in BOOLEAN :
              /\ \A data \in CatalogAddInputs :
                    Untouched(add_treatment_api(DB, data, storage_ok).db)
              /\ \A treatment_id \in CatalogIds :
                    /\ Untouched(delete_treatment_api(DB, treatment_id,
                                                      storage_ok).db)
                    /\ \A data \in CatalogUpdateInputs :
                          Untouched(update_treatment_api(DB, treatment_id,
                                                         data, storage_ok).db)

\* A payment is recorded and a charge line of its patient has been
\* credited by an allocation of another amount.
C22_PaymentThenAllocation ==
    /\ Len(payments) = 1
    /\ payments[1].status = "paid"
    /\ \E i \in 1..Len(treatment_pricing) :
          /\ treatment_pricing[i].patient_pesel = payments[1].patient_pesel
          /\ treatment_pricing[i].paid_amount # 0
          /\ treatment_pricing[i].paid_amount # payments[1].amount

(***************************************************************************)
(* The claim on the patient check.                                         *)
(***************************************************************************)
\* C23: patient existence is checked first.  In every reachable state and
\* for every patient id that is not stored, add_payment_api,
\* add_visit_billing, add_treatment_pricing_api and update_item_payment_api
\* answer 404 without success, whatever the request body and whether or not
\* storage would fail, and the payments and the charge lines (treatment
\* prices, product sales, visits) after the call are those before it.
C23_PatientChecked ==
    LET NotFound(r) ==
            /\ r.ret = Response(404, FALSE)
            /\ r.db.payments = payments
            /\ r.db.treatment_pricing = treatment_pricing
            /\ r.db.product_sales = product_sales
            /\ r.db.visits = visits
    IN  \A pesel \in Pesels \ patients, storage_ok \in BOOLEAN :
            /\ \A data \in PaymentInputs, update_ok \in BOOLEAN :
                  NotFound(add_payment_api(DB, pesel, data, storage_ok,
                                           update_ok))
            /\ \A data \in VisitInputs :
                  NotFound(add_visit_billing(DB, pesel, data, storage_ok))
            /\ \A data \in PricingInputs :
                  NotFound(add_treatment_pricing_api(DB, pesel, data,
                                                     storage_ok))
            /\ \A data \in ItemPaymentInputs :
                  NotFound(update_item_payment_api(DB, pesel, data,
                                                   storage_ok))

\* One patient is not stored while the ledger holds a payment, a treatment
\* line and a visit of another, which the item ids of the requests name.
C23_MissingPatientBesideLedger ==
    /\ Pesels \ patients # {}
    /\ Len(payments) = 1
    /\ Len(treatment_pricing) >= 1
    /\ Len(visits) = 1

(***************************************************************************)
(* The claim on storage errors.                                            *)
(***************************************************************************)
\* C24: storage errors become failures without partial effect.  In every
\* reachable state and for every input, when storage fails inside
\* add_payment, add_treatment_pricing or add_visit the call returns None,
\* inside update_payment_for_item it returns False, and each leaves every
\* table as it was; the handlers then answer 500 without success (the
\* payment handler only when its insert is the call that failed).
C24_StorageErrorNoPartialEffect ==
    \A pesel \in Pesels :
        /\ \A data \in PaymentInputs :
              LET r == add_payment(DB, pesel, data.amount, data.reference_id,
                                   data.reference_type, FALSE)
              IN  /\ r.ret = NULL /\ r.db = DB
                  /\ \A update_ok \in BOOLEAN :
                        get_patient(DB, pesel) =>
                            add_payment_api(DB, pesel, data, FALSE, update_ok)
                                = [db |-> DB, ret |-> Response(500, FALSE)]
        /\ \A data \in PricingInputs :
              LET r == add_treatment_pricing(
                           DB, pesel, data.treatment_name,
                           data.treatment_type, data.price, data.reference_id,
                           FALSE)
              IN  /\ r.ret = NULL /\ r.db = DB
                  /\ get_patient(DB, pesel) =>
                         add_treatment_pricing_api(DB, pesel, data, FALSE)
                             = [db |-> DB, ret |-> Response(500, FALSE)]
        /\ \A data \in VisitInputs :
              LET r == add_visit(DB, pesel, data.visit_date, data.cost, FALSE)
              IN  /\ r.ret = NULL /\ r.db = DB
                  /\ get_patient(DB, pesel) =>
                         add_visit_billing(DB, pesel, data, FALSE)
                             = [db |-> DB, ret |-> Response(500, FALSE)]
        /\ \A data \in ItemPaymentInputs :
              LET r == update_payment_for_item(DB, pesel, data.item_type,
                                               data.item_id, data.amount,
                                               FALSE)
              IN  /\ r.ret = FALSE /\ r.db = DB
                  /\ get_patient(DB, pesel) =>
                         update_item_payment_api(DB, pesel, data, FALSE)
                             = [db |-> DB, ret |-> Response(500, FALSE)]

\* The ledger holds a payment, a visit and a treatment line that an
\* allocation would credit if storage answered.
C24_LedgerWithCreditableLine ==
    /\ Len(payments) = 1
    /\ Len(visits) = 1
    /\ \E pesel \in Pesels, data \in ItemPaymentInputs :
          /\ data.item_type = "treatment"
          /\ update_payment_for_item(DB, pesel, data.item_type, data.item_id,
                                     data.amount, TRUE).db # DB

(***************************************************************************)
(* Responses and the global exception middleware.  A handler returns a     *)
(* response (a status code and a content, the content a record of the      *)
(* body's keys) or raises; the middleware turns an exception that escapes  *)
(* the handler into a response.                                            *)
(***************************************************************************)
Returned(code, content) ==
    [raised |-> FALSE, status_code |-> code, content |-> content]

Raises == [raised |-> TRUE]

catch_exceptions_middleware(result) ==
    IF result.raised
    THEN Returned(500, [message |-> "Internal Server Error: str(e)",
                        traceback |-> "traceback.format_exc()"])
    ELSE result

\* GET /api/get-payment-summary/{pesel}; raises: an exception inside the
\* handler's try block.
get_payment_summary_api(db, pesel, raises) ==
    IF raises
    THEN Returned(500, [success |-> FALSE, error |-> "str(e)"])
    ELSE Returned(200, get_payment_summary(db, pesel))

\* GET /documentation_form; render_ok: the template renders.
documentation_form(render_ok) ==
    IF render_ok
    THEN Returned(200, [html |-> "documentation_form.html"])
    ELSE Returned(500, [message |-> "Error rendering template: str(e)",
                        traceback |-> "traceback.format_exc()"])

\* GET /edit-visit/{pesel}/{visit_id}: the query runs outside any try.
edit_visit(db, pesel, visit_id, storage_ok) ==
    IF ~ get_patient(db, pesel)
    THEN Returned(404, [html |-> "error.html"])
    ELSE IF ~ storage_ok THEN Raises
    ELSE IF \E i \in 1..Len(db.visits) :
                db.visits[i].pesel = pesel /\ db.visits[i].id = visit_id
    THEN Returned(200, [html |-> "visit_form.html"])
    ELSE Returned(404, [html |-> "error.html"])

(***************************************************************************)
(* The claim on the response bodies.                                       *)
(***************************************************************************)
\* C25: no stack trace reaches the client.  In every reachable state, for
\* every request and every failure (an error handled inside the endpoint
\* or an exception that escapes to the middleware), the body of the
\* response that leaves the middleware has no traceback.
C25_NoStackTraceInBody ==
    LET Clean(result) ==
            LET response == catch_exceptions_middleware(result)
            IN  /\ ~ response.raised
                /\ "traceback" \notin DOMAIN response.content
    IN  /\ \A pesel \in Pesels, raises \in BOOLEAN :
              Clean(get_payment_summary_api(DB, pesel, raises))
        /\ \A render_ok \in BOOLEAN : Clean(documentation_form(render_ok))
        /\ \A pesel \in Pesels, visit_id \in 1..MaxVisits,
              storage_ok \in BOOLEAN :
              Clean(edit_visit(DB, pesel, visit_id, storage_ok))

(***************************************************************************)
(* The claim on the sync before a billing view.                            *)
(***************************************************************************)
\* C26: every billing view syncs first.  In every reachable state and for
\* every patient, the payment summary returned by get_payment_summary_api
\* is the summary of the ledger after a sync for the patient (its total_due
\* counts a line for every instance of the patient's plans), and after the
\* treatment charge list and after the visit billing list no instance of
\* the patient is left without a line.
C26_ViewsSyncFirst ==
    \A pesel \in Pesels :
        LET synced == sync_clinic_treatments_to_billing(DB, pesel, TRUE).db
        IN  /\ get_payment_summary_api(DB, pesel, FALSE).content =
                   get_payment_summary(synced, pesel)
            /\ MissingTreatments(
                   get_patient_treatments_billing(DB, pesel, TRUE).db,
                   pesel) = << >>
            /\ MissingTreatments(
                   get_patient_visits_billing(DB, pesel, TRUE).db,
                   pesel) = << >>

(***************************************************************************)
(* The claim on the existence test of the sync.                            *)
(***************************************************************************)
\* C27: the existence test recognises a synced instance whatever its field
\* values.  In every reachable state, for every patient and every instance
\* of the patient's plans that was saved without a treatment_type and has
\* no charge line yet, a first sync creates its line and the sync that
\* follows finds that line: the instance has one line after both.
C27_NullTypeInstanceRecognised ==
    \A pesel \in Pesels, t \in 1..Len(clinic_treatments) :
        LET first == sync_clinic_treatments_to_billing(DB, pesel, TRUE).db
            second == sync_clinic_treatments_to_billing(first, pesel, TRUE).db
        IN  /\ PlanPesel(DB, clinic_treatments[t]) = pesel
            /\ clinic_treatments[t].treatment_type = NULL
            /\ LinesFor(DB, t) = {}
            => /\ Cardinality(LinesFor(first, t)) = 1
               /\ Cardinality(LinesFor(second, t)) = 1

(***************************************************************************)
(* Status changes on connections of their own.  update_clinic_treatment    *)
(* reads status and history with a SELECT, builds the new history from     *)
(* what it read, and writes it with the UPDATE that follows.               *)
(***************************************************************************)
\* SELECT status, history FROM clinic_treatments WHERE id = ?
StatusSelect(k) ==
    /\ conns[k].pc = "idle"
    /\ \E treatment_id \in 1..Len(clinic_treatments), st \in Statuses :
          /\ clinic_treatments[treatment_id].history.json = "list"
          /\ conns' = [conns EXCEPT ![k] =
                          [pc |-> "selected", call |-> "update_status",
                           args |-> [treatment_id |-> treatment_id,
                                     updates |-> [status |-> st]],
                           treatments |->
                               <<[status |->
                                      clinic_treatments[treatment_id].status,
                                  history |->
                                      clinic_treatments[treatment_id].history]>>,
                           tx |-> NULL, ret |-> NULL]]
    /\ UNCHANGED <<tables, write_lock>>

\* The "history = ?" clause built from the row the SELECT returned.
HistoryClauseFrom(current_data, updates) ==
    IF current_data.status # updates.status
    THEN Some(AppendHistoryEntry(current_data.history, current_data.status,
                                 updates.status))
    ELSE NULL

\* UPDATE clinic_treatments SET status = ?, history = ? WHERE id = ?
StatusExecute(k) ==
    /\ conns[k].pc = "selected"
    /\ conns[k].call = "update_status"
    /\ write_lock = 0
    /\ LET r == UpdateClinicTreatmentRow(
                    DB, conns[k].args.treatment_id, conns[k].args.updates,
                    HistoryClauseFrom(conns[k].treatments[1],
                                      conns[k].args.updates))
       IN  conns' = [conns EXCEPT ![k].pc = "executed",
                                  ![k].tx = Some(r.db.clinic_treatments),
                                  ![k].ret = Some(r.ret)]
    /\ write_lock' = k
    /\ UNCHANGED tables

\* "database is locked" on the UPDATE: the except clause returns a failure.
StatusBusy(k) ==
    /\ conns[k].pc = "selected"
    /\ conns[k].call = "update_status"
    /\ write_lock # 0
    /\ conns' = [conns EXCEPT
                    ![k].pc = "done",
                    ![k].ret = Some([success |-> FALSE,
                                     error |-> "exception"])]
    /\ UNCHANGED <<tables, write_lock>>

\* conn.commit() of update_clinic_treatment.
StatusCommit(k) ==
    /\ conns[k].pc = "executed"
    /\ conns[k].call = "update_status"
    /\ clinic_treatments' = conns[k].tx[1]
    /\ conns' = [conns EXCEPT ![k].pc = "done", ![k].tx = NULL]
    /\ write_lock' = IF write_lock = k THEN 0 ELSE write_lock
    /\ UNCHANGED <<patients, clinic_treatment_plans, treatment_pricing,
                   product_sales, visits, payments, available_treatments>>

\* Concurrent status changes on a plan saved, with empty histories, before
\* any of them starts.
HistoryRaceSetup ==
    /\ NoCallStarted
    /\ \/ SavePatient
       \/ SaveClinicTreatmentPlan(LedgerPlanInputs)

NextHistoryRace ==
    \/ HistoryRaceSetup
    \/ \E k \in 1..NumConns : StatusSelect(k)
    \/ \E k \in 1..NumConns : StatusExecute(k)
    \/ \E k \in 1..NumConns : StatusBusy(k)
    \/ \E k \in 1..NumConns : StatusCommit(k)

SpecHistoryRace == Init /\ [][NextHistoryRace]_vars

(***************************************************************************)
(* The claim on the history under concurrent status changes.               *)
(***************************************************************************)
\* C28: the status history stays a consistent chain under concurrent
\* updates.  Every step of concurrent update_clinic_treatment calls that
\* changes the stored status of an instance appends exactly one entry,
\* from the status stored before to the status stored after, to the stored
\* history, and a step that leaves the status leaves the history; so for
\* an instance created with empty history the entries number the calls
\* that changed the status, each from is the previous to, and the last to
\* is the stored status.
C28_HistoryChainUnderConcurrency ==
    [][\A t \in 1..Len(clinic_treatments) :
          IF clinic_treatments'[t].status # clinic_treatments[t].status
          THEN clinic_treatments'[t].history.items =
                   Append(clinic_treatments[t].history.items,
                          [from |-> clinic_treatments[t].status,
                           to |-> clinic_treatments'[t].status])
          ELSE clinic_treatments'[t].history = clinic_treatments[t].history]_vars

(***************************************************************************)
(* The claims on the ledger as a whole.                                    *)
(***************************************************************************)
\* C29: ledger conservation.  In every reachable state and for every
\* patient, the sum of paid_amount over the patient's charge lines
\* (treatment prices, product sales, visits) equals the sum of amount over
\* the patient's payment records whose reference names an existing line of
\* the patient: every credit on a line is backed by a recorded payment and
\* every referenced payment is credited once.
C29_LedgerConservation ==
    \A p \in Pesels :
        LET credited ==
                SumOf(treatment_pricing, "patient_pesel", p, "paid_amount")
                + SumOf(product_sales, "patient_pesel", p, "paid_amount")
                + SumOf(visits, "pesel", p, "paid_amount")
            backed ==
                SelectSeq(payments,
                          LAMBDA r :
                              /\ r.patient_pesel = p
                              /\ r.reference_id # NULL
                              /\ r.reference_type # NULL
                              /\ \E table \in ChargeTableNames :
                                    Resolved(DB, p, r.reference_type[1],
                                             r.reference_id, table) # {})
        IN  credited = SumSeq([i \in 1..Len(backed) |-> backed[i].amount])

\* C30: per-patient isolation of the ledger.  In every reachable state and
\* for any two distinct patients p and q, after a billing operation invoked
\* for q (the sync, a payment with or without reference, an item payment
\* with any item kind, id and amount, a new visit, a new treatment price),
\* whether or not storage fails in it, get_payment_summary(p) returns what
\* it returned before, and the charge lines and the payments of p are the
\* rows they were (an operation that changes no table at all changes none
\* of them).
C30_PerPatientIsolation ==
    \A p \in Pesels : \A q \in Pesels \ {p} :
        LET Mine(db) ==
                <<SelectSeq(db.treatment_pricing,
                            LAMBDA r : r.patient_pesel = p),
                  SelectSeq(db.product_sales, LAMBDA r : r.patient_pesel = p),
                  SelectSeq(db.visits, LAMBDA r : r.pesel = p),
                  SelectSeq(db.payments, LAMBDA r : r.patient_pesel = p)>>
            summary == get_payment_summary(DB, p)
            mine == Mine(DB)
            Isolated(db) ==
                db # DB => /\ Mine(db) = mine
                           /\ get_payment_summary(db, p) = summary
        IN  \A storage_ok \in BOOLEAN :
                /\ Isolated(sync_clinic_treatments_to_billing(
                                DB, q, storage_ok).db)
                /\ Isolated(get_patient_treatments_billing(
                                DB, q, storage_ok).db)
                /\ \A data \in PaymentInputs, update_ok \in BOOLEAN :
                      Isolated(add_payment_api(DB, q, data, storage_ok,
                                               update_ok).db)
                /\ \A item_type \in ItemTypes, item_id \in CallerItemIds,
                      amount \in Amounts :
                      Isolated(update_item_payment_api(
                                   DB, q,
                                   [item_type |-> item_type,
                                    item_id |-> item_id, amount |-> amount],
                                   storage_ok).db)
                /\ \A data \in VisitInputs :
                      Isolated(add_visit_billing(DB, q, data, storage_ok).db)
                /\ \A data \in PricingInputs :
                      Isolated(add_treatment_pricing_api(DB, q, data,
                                                         storage_ok).db)

\* Two patients are stored; one has a treatment line, a visit and a
\* payment, whose ids the requests for the other name, and the other has a
\* plan instance to sync.
C30_NeighbourWithLedger ==
    \E p \in patients : \E q \in patients \ {p} :
        /\ \E i \in 1..Len(treatment_pricing) :
              treatment_pricing[i].patient_pesel = p
        /\ Len(visits) = 1 /\ visits[1].pesel = p
        /\ Len(payments) = 1 /\ payments[1].patient_pesel = p
        /\ MissingTreatments(DB, q) # << >>

====
